---- MODULE Spec2Model ----
(***************************************************************************)
(* Model of src/data.py: DataProcessing (filter, process, numerize,        *)
(* split_train_test) and DataReader (load_n_items, load_train_test_data).  *)
(*                                                                         *)
(* A table (pandas DataFrame) is a sequence of rows <<user, item>>: the    *)
(* first two columns.  Further columns (ratings) are carried along by the  *)
(* code unchanged and decide nothing modelled here; read_data is the frame *)
(* after the optional rating threshold of lines 34-35.  groupby().size()   *)
(* is the Series indexed by the group key that the code indexes with       *)
(* .index and boolean masks.  np.random draws are nondeterministic choices *)
(* and test_prop is an exact fraction.  A sparse matrix is its rows,       *)
(* each row the set of column indices holding a stored entry (building a   *)
(* csr_matrix from triples sums repeated (row, col) pairs into one entry). *)
(***************************************************************************)
EXTENDS Integers, Sequences, FiniteSets, TLC

\* ------------------------------------------------------------------ bounds
MaxRows == 6        \* rows of an input table of process(), 3 users
MaxWideRows == 8    \* rows of an input table of process(), 5 users
MaxAnyRows == 5     \* rows of an input table of process(), rows in any order
MaxCallRows == 4    \* rows of a table handed to filter / split_train_test
MaxCsvRows == 2     \* rows of a persisted table handed to the reader

Users == 1 .. 3
WideUsers == 1 .. 5
Items == 1 .. 2
WideItems == 1 .. 1
HeldOuts == 0 .. 2
Thresholds == 0 .. 2
\* test_prop as a fraction <<numerator, denominator>>; <<0, 1>> is falsy
TestProps == {<<0, 1>>, <<1, 5>>, <<1, 2>>, <<2, 3>>, <<1, 1>>}

\* ----------------------------------------------------------------- helpers
Range(s) == {s[k] : k \in 1 .. Len(s)}
Max(a, b) == IF a >= b THEN a ELSE b
Min(a, b) == IF a <= b THEN a ELSE b

RECURSIVE SortedSeq(_)
SortedSeq(S) ==
  IF S = {} THEN <<>>
  ELSE LET m == CHOOSE x \in S : \A y \in S : x <= y
       IN <<m>> \o SortedSeq(S \ {m})

\* data[c] values, data.loc[data[c].isin(S)], number of rows with data[c] = x
Values(data, c) == {data[k][c] : k \in 1 .. Len(data)}
Isin(data, c, S) == SelectSeq(data, LAMBDA r : r[c] \in S)
Count(data, c, x) == Cardinality({k \in 1 .. Len(data) : data[k][c] = x})

\* rows of g at the positions idx, in order (boolean-mask indexing)
Pick(g, idx) == LET p == SortedSeq(idx) IN [j \in 1 .. Len(p) |-> g[p[j]]]

\* seq[start:stop] of Python: negative indices count from the end, both clamp
PyIndex(i, n) == IF i < 0 THEN Max(i + n, 0) ELSE Min(i, n)
PySlice(s, start, stop) ==
  SubSeq(s, PyIndex(start, Len(s)) + 1, PyIndex(stop, Len(s)))

\* pd.unique: distinct values in order of first appearance
RECURSIVE Unique(_)
Unique(s) ==
  IF s = <<>> THEN <<>>
  ELSE LET r == Unique(SubSeq(s, 1, Len(s) - 1))
           x == s[Len(s)]
       IN IF x \in Range(r) THEN r ELSE Append(r, x)

\* dict((x, i) for (i, x) in enumerate(s)): a later position overwrites
Enumerate(s) ==
  [x \in Range(s) |->
     (CHOOSE k \in 1 .. Len(s) : s[k] = x /\ \A j \in 1 .. Len(s) : s[j] = x => j <= k) - 1]

\* ------------------------------------------------- DataProcessing.filter
get_count(data, c) == [x \in Values(data, c) |-> Count(data, c, x)]

\* filter with the user counts taken before the item pruning
filterStaleCount(data, min_u, min_i) ==
  LET d1 == IF min_i > 0
            THEN LET icnt == get_count(data, 2)
                 IN Isin(data, 2, {x \in DOMAIN icnt : icnt[x] >= min_i})
            ELSE data
      d2 == IF min_u > 0
            THEN LET ucnt == get_count(data, 1)
                 IN Isin(d1, 1, {x \in DOMAIN ucnt : ucnt[x] >= min_u})
            ELSE d1
  IN [data |-> d2, ucnt |-> get_count(d2, 1), icnt |-> get_count(d2, 2)]

filter(data, min_u, min_i) ==
  LET d1 == IF min_i > 0
            THEN LET icnt == get_count(data, 2)
                 IN Isin(data, 2, {x \in DOMAIN icnt : icnt[x] >= min_i})
            ELSE data
      d2 == IF min_u > 0
            THEN LET ucnt == get_count(d1, 1)
                 IN Isin(d1, 1, {x \in DOMAIN ucnt : ucnt[x] >= min_u})
            ELSE d1
  IN [data |-> d2, ucnt |-> get_count(d2, 1), icnt |-> get_count(d2, 2)]

\* ------------------------------------------- DataProcessing.process, 41-65
\* np.random.permutation(n): every bijection of the positions
permutation(n) ==
  {f \in [1 .. n -> 1 .. n] : \A a, b \in 1 .. n : f[a] = f[b] => a = b}

\* user_activity.index (group keys in sorted order), reordered by idx_perm
PermutedUid(activity, idx_perm) ==
  LET index == SortedSeq(DOMAIN activity)
  IN [k \in 1 .. Len(index) |-> index[idx_perm[k]]]

TrUsers(uid, n_heldout) == PySlice(uid, 0, Len(uid) - n_heldout * 2)
VdUsers(uid, n_heldout) ==
  PySlice(uid, Len(uid) - n_heldout * 2, Len(uid) - n_heldout)
TeUsers(uid, n_heldout) == PySlice(uid, Len(uid) - n_heldout, Len(uid))

TrainData(raw, users) == Isin(raw, 1, Range(users))
\* the item vocabulary taken from every retained row, not the train rows
UniqueIidAll(raw, users) == Unique([k \in 1 .. Len(raw) |-> raw[k][2]])

UniqueIid(raw, users) ==
  LET train == TrainData(raw, users)
  IN Unique([k \in 1 .. Len(train) |-> train[k][2]])

\* lines 57-58 / 59-60, then the count filter of lines 62-65
HeldoutData(raw, users, iids) ==
  LET d == Isin(Isin(raw, 1, Range(users)), 2, Range(iids))
      cnt == get_count(d, 1)
  IN Isin(d, 1, {u \in DOMAIN cnt : cnt[u] >= 2})

\* ------------------------------------ DataProcessing.split_train_test
\* float(cfg.test_prop) if cfg.test_prop else 0.2
TestProp(tp) == IF tp[1] = 0 THEN <<1, 5>> ELSE tp

\* the held-out size without the floor of one row
SzNoMin(n_items_u, tp) == (tp[1] * n_items_u) \div tp[2]

\* max(int(test_prop * n_items_u), 1); int() truncates, test_prop >= 0
Sz(n_items_u, tp) == Max((tp[1] * n_items_u) \div tp[2], 1)

SubsetsOfSize(k, sz) == {S \in SUBSET (1 .. k) : Cardinality(S) = sz}

\* np.random.choice raises when asked for more than n_items_u distinct
\* positions; pd.concat raises on an empty list (no user with > 1 rows)
SplitRaises(data, tp) ==
  \/ \A u \in Values(data, 1) : Count(data, 1, u) <= 1
  \/ \E u \in Values(data, 1) :
       Count(data, 1, u) > 1 /\ Sz(Count(data, 1, u), tp) > Count(data, 1, u)

\* every <<data_tr, data_te>> the loop can produce over the groups us
\* (users in sorted order), one choice of held-out positions per group
RECURSIVE SplitGroups(_, _, _)
SplitGroups(data, us, tp) ==
  IF us = <<>> THEN {<<<<>>, <<>>>>}
  ELSE LET group == Isin(data, 1, {Head(us)})
           n_items_u == Len(group)
           rest == SplitGroups(data, Tail(us), tp)
       IN IF n_items_u > 1
          THEN {<<Pick(group, (1 .. n_items_u) \ idx) \o r[1],
                  Pick(group, idx) \o r[2]>> :
                  idx \in SubsetsOfSize(n_items_u, Sz(n_items_u, tp)),
                  r \in rest}
          ELSE rest

split_train_test(data, tp) ==
  SplitGroups(data, SortedSeq(Values(data, 1)), TestProp(tp))

\* ------------------------------------------- DataProcessing.process, 70-80
\* list.remove(u): drops the first occurrence
RECURSIVE RemoveFirst(_, _)
RemoveFirst(s, u) ==
  IF s = <<>> THEN <<>>
  ELSE IF Head(s) = u THEN Tail(s)
  ELSE <<Head(s)>> \o RemoveFirst(Tail(s), u)

RECURSIVE RemoveAll(_, _)
RemoveAll(s, todel) ==
  IF todel = <<>> THEN s
  ELSE RemoveAll(RemoveFirst(s, Head(todel)), Tail(todel))

\* [u for u in unique_uid[len(tr_users):] if u not in us]
Todel(uid, ntr, val, test) ==
  LET us == Values(val, 1) \cup Values(test, 1)
  IN SelectSeq(PySlice(uid, ntr, Len(uid)), LAMBDA u : u \notin us)

\* no pruning of the held-out users without usable rows
PrunedUidKeepAll(uid, ntr, val, test) == uid

\* pruning that looks at the validation users only
PrunedUidValOnly(uid, ntr, val, test) ==
  RemoveAll(uid, SelectSeq(PySlice(uid, ntr, Len(uid)),
                           LAMBDA u : u \notin Values(val, 1)))

PrunedUid(uid, ntr, val, test) == RemoveAll(uid, Todel(uid, ntr, val, test))

\* ------------------------------------------------ DataProcessing.numerize
\* u2id[x] / i2id[x] of an id that is no key raises KeyError
NumerizeRaises(data, um, im) ==
  \E k \in 1 .. Len(data) :
    data[k][1] \notin DOMAIN um \/ data[k][2] \notin DOMAIN im

numerize(data, um, im) ==
  [k \in 1 .. Len(data) |-> <<um[data[k][1]], im[data[k][2]]>>]

\* -------------------------------------------------------------- DataReader
load_n_items(lines) == Len(lines)

MinOf(S) == CHOOSE x \in S : \A y \in S : x <= y
MaxOf(S) == CHOOSE x \in S : \A y \in S : x >= y

\* csr_matrix((values, (rows, cols)), shape=(nrows, n_items)).rows
MatrixRows(csv, start_idx, nrows) ==
  [r \in 1 .. nrows |->
     {csv[k][2] : k \in {j \in 1 .. Len(csv) : csv[j][1] - start_idx = r - 1}}]

\* np.diff(indptr) != 0: the rows holding at least one stored entry
NonEmptyRows(rows) == {r \in 1 .. Len(rows) : rows[r] # {}}

AsMatrix(rows, n_items) == [shape |-> <<Len(rows), n_items>>, rows |-> rows]

\* An empty data_tr makes min()/max() NaN and the shape invalid; a column
\* index >= n_items is rejected by csr_matrix.
LoadRaises(csv_tr, csv_te, n_items) ==
  \/ csv_tr = <<>>
  \/ \E c \in Values(csv_tr, 2) \cup Values(csv_te, 2) : c >= n_items

\* each matrix masked by its own non-empty rows
load_train_test_data_own_mask(csv_tr, csv_te, n_items) ==
  LET uids == Values(csv_tr, 1) \cup Values(csv_te, 1)
      start_idx == MinOf(uids)
      end_idx == MaxOf(uids)
      data_tr == MatrixRows(csv_tr, start_idx, end_idx - start_idx + 1)
      data_te == MatrixRows(csv_te, start_idx, end_idx - start_idx + 1)
  IN [tr |-> AsMatrix(Pick(data_tr, NonEmptyRows(data_tr)), n_items),
      te |-> AsMatrix(Pick(data_te, NonEmptyRows(data_te)), n_items)]

load_train_test_data(csv_tr, csv_te, n_items) ==
  LET uids == Values(csv_tr, 1) \cup Values(csv_te, 1)
      start_idx == MinOf(uids)
      end_idx == MaxOf(uids)
      data_tr == MatrixRows(csv_tr, start_idx, end_idx - start_idx + 1)
      data_te == MatrixRows(csv_te, start_idx, end_idx - start_idx + 1)
      tr_idx == NonEmptyRows(data_tr)
  IN [tr |-> AsMatrix(Pick(data_tr, tr_idx), n_items),
      te |-> AsMatrix(Pick(data_te, tr_idx), n_items)]

\* ------------------------------------------------------------------- state
VARIABLES
  cfg,            \* DataConfig: u_min, i_min, heldout, test_prop
  pc,             \* position in process() / the reader, or the exception raised
  read_data,      \* the frame read at lines 32-35 (the argument of filter)
  raw_data, user_activity, item_popularity,
  unique_uid, tr_users, vd_users, te_users,
  unique_iid, train_data, val_data, test_data,
  val_data_tr, val_data_te, test_data_tr, test_data_te,
  u2id, i2id,
  disk,           \* proc_path: file name -> lines / rows
  n_items,        \* DataReader.n_items
  loaded          \* what load_train_test_data returned, per datatype

vars == <<cfg, pc, read_data, raw_data, user_activity, item_popularity,
          unique_uid, tr_users, vd_users, te_users,
          unique_iid, train_data, val_data, test_data,
          val_data_tr, val_data_te, test_data_tr, test_data_te,
          u2id, i2id, disk, n_items, loaded>>

NoMatrix == [shape |-> <<0, 0>>, rows |-> <<>>]
Unloaded == [status |-> "unset", tr |-> NoMatrix, te |-> NoMatrix]
DataTypes == {"validation", "test"}

\* everything process() and the reader have not assigned yet
Blank ==
  /\ raw_data = <<>> /\ user_activity = <<>> /\ item_popularity = <<>>
  /\ unique_uid = <<>> /\ tr_users = <<>> /\ vd_users = <<>> /\ te_users = <<>>
  /\ unique_iid = <<>> /\ train_data = <<>>
  /\ val_data = <<>> /\ test_data = <<>>
  /\ val_data_tr = <<>> /\ val_data_te = <<>>
  /\ test_data_tr = <<>> /\ test_data_te = <<>>
  /\ u2id = <<>> /\ i2id = <<>>
  /\ n_items = 0
  /\ loaded = [d \in DataTypes |-> Unloaded]

\* ------------------------------------------------------------------ inputs
\* tables of at most n rows over the given ids, rows grouped by user
RECURSIVE SortedTables(_, _, _)
SortedTables(us, its, n) ==
  IF n = 0 THEN {<<>>}
  ELSE LET prev == SortedTables(us, its, n - 1)
       IN prev \cup
          UNION {{Append(t, <<u, i>>) :
                    u \in {v \in us : t = <<>> \/ t[Len(t)][1] <= v},
                    i \in its} :
                 t \in {x \in prev : Len(x) = n - 1}}

\* tables of at most n rows in any order
RECURSIVE Tables(_, _, _)
Tables(us, its, n) ==
  IF n = 0 THEN {<<>>}
  ELSE Tables(us, its, n - 1) \cup [1 .. n -> us \X its]

Config(u_min, i_min, heldout, test_prop) ==
  [u_min |-> u_min, i_min |-> i_min, heldout |-> heldout,
   test_prop |-> test_prop]

\* runs of process(): <<input table, config>>
ProcessRuns ==
  (SortedTables(Users, Items, MaxRows)
     \X {Config(mu, mi, h, tp) : mu \in {0, 2}, mi \in {0, 2}, h \in HeldOuts,
                                 tp \in {<<1, 2>>, <<1, 1>>}})
  \cup
  (SortedTables(WideUsers, WideItems, MaxWideRows)
     \X {Config(0, 0, 2, <<1, 2>>)})
  \cup
  (Tables(Users, Items, MaxAnyRows)
     \X {Config(0, 0, 1, <<1, 2>>)})

\* ----------------------------------------------------------------- actions
Init ==
  /\ pc = "start"
  /\ \E run \in ProcessRuns : read_data = run[1] /\ cfg = run[2]
  /\ Blank
  /\ disk = <<>>

\* lines 37-39
Filter ==
  /\ pc = "start"
  /\ LET r == filter(read_data, cfg.u_min, cfg.i_min)
     IN /\ raw_data' = r.data
        /\ user_activity' = r.ucnt
        /\ item_popularity' = r.icnt
  /\ pc' = "filtered"
  /\ UNCHANGED <<cfg, read_data, unique_uid, tr_users, vd_users, te_users,
                 unique_iid, train_data, val_data, test_data,
                 val_data_tr, val_data_te, test_data_tr, test_data_te,
                 u2id, i2id, disk, n_items, loaded>>

\* lines 41-65
Partition ==
  /\ pc = "filtered"
  /\ \E idx_perm \in permutation(Cardinality(DOMAIN user_activity)) :
       LET uid == PermutedUid(user_activity, idx_perm)
           tr == TrUsers(uid, cfg.heldout)
           vd == VdUsers(uid, cfg.heldout)
           te == TeUsers(uid, cfg.heldout)
           iid == UniqueIid(raw_data, tr)
       IN /\ unique_uid' = uid
          /\ tr_users' = tr /\ vd_users' = vd /\ te_users' = te
          /\ train_data' = TrainData(raw_data, tr)
          /\ unique_iid' = iid
          /\ val_data' = HeldoutData(raw_data, vd, iid)
          /\ test_data' = HeldoutData(raw_data, te, iid)
  /\ pc' = "split_val"
  /\ UNCHANGED <<cfg, read_data, raw_data, user_activity, item_popularity,
                 val_data_tr, val_data_te, test_data_tr, test_data_te,
                 u2id, i2id, disk, n_items, loaded>>

\* line 67
SplitVal ==
  /\ pc = "split_val"
  /\ IF SplitRaises(val_data, TestProp(cfg.test_prop))
     THEN pc' = "ValueError" /\ UNCHANGED <<val_data_tr, val_data_te>>
     ELSE /\ \E r \in split_train_test(val_data, cfg.test_prop) :
               val_data_tr' = r[1] /\ val_data_te' = r[2]
          /\ pc' = "split_test"
  /\ UNCHANGED <<cfg, read_data, raw_data, user_activity, item_popularity,
                 unique_uid, tr_users, vd_users, te_users,
                 unique_iid, train_data, val_data, test_data,
                 test_data_tr, test_data_te,
                 u2id, i2id, disk, n_items, loaded>>

\* line 68
SplitTest ==
  /\ pc = "split_test"
  /\ IF SplitRaises(test_data, TestProp(cfg.test_prop))
     THEN pc' = "ValueError" /\ UNCHANGED <<test_data_tr, test_data_te>>
     ELSE /\ \E r \in split_train_test(test_data, cfg.test_prop) :
               test_data_tr' = r[1] /\ test_data_te' = r[2]
          /\ pc' = "maps"
  /\ UNCHANGED <<cfg, read_data, raw_data, user_activity, item_popularity,
                 unique_uid, tr_users, vd_users, te_users,
                 unique_iid, train_data, val_data, test_data,
                 val_data_tr, val_data_te,
                 u2id, i2id, disk, n_items, loaded>>

\* lines 70-94
BuildMaps ==
  /\ pc = "maps"
  /\ unique_uid' = PrunedUid(unique_uid, Len(tr_users), val_data, test_data)
  /\ i2id' = Enumerate(unique_iid)
  /\ u2id' = Enumerate(unique_uid')
  /\ disk' = ("unique_iid.txt" :> unique_iid
              @@ "unique_uid.txt" :> unique_uid') @@ disk
  /\ pc' = "numerize"
  /\ UNCHANGED <<cfg, read_data, raw_data, user_activity, item_popularity,
                 tr_users, vd_users, te_users,
                 unique_iid, train_data, val_data, test_data,
                 val_data_tr, val_data_te, test_data_tr, test_data_te,
                 n_items, loaded>>

\* lines 96-108; a KeyError unwinds process() before any table is written
NumerizeAll ==
  /\ pc = "numerize"
  /\ IF \E d \in {train_data, val_data_tr, val_data_te,
                  test_data_tr, test_data_te} : NumerizeRaises(d, u2id, i2id)
     THEN /\ pc' = "KeyError"
          /\ UNCHANGED <<train_data, val_data_tr, val_data_te,
                         test_data_tr, test_data_te, disk>>
     ELSE /\ train_data' = numerize(train_data, u2id, i2id)
          /\ val_data_tr' = numerize(val_data_tr, u2id, i2id)
          /\ val_data_te' = numerize(val_data_te, u2id, i2id)
          /\ test_data_tr' = numerize(test_data_tr, u2id, i2id)
          /\ test_data_te' = numerize(test_data_te, u2id, i2id)
          /\ disk' = ("train.csv" :> train_data'
                      @@ "validation_tr.csv" :> val_data_tr'
                      @@ "validation_te.csv" :> val_data_te'
                      @@ "test_tr.csv" :> test_data_tr'
                      @@ "test_te.csv" :> test_data_te') @@ disk
          /\ pc' = "done"
  /\ UNCHANGED <<cfg, read_data, raw_data, user_activity, item_popularity,
                 unique_uid, tr_users, vd_users, te_users,
                 unique_iid, val_data, test_data,
                 u2id, i2id, n_items, loaded>>

\* DataReader.__init__, line 170
ReaderInit ==
  /\ pc = "done"
  /\ n_items' = load_n_items(disk["unique_iid.txt"])
  /\ pc' = "reader"
  /\ UNCHANGED <<cfg, read_data, raw_data, user_activity, item_popularity,
                 unique_uid, tr_users, vd_users, te_users,
                 unique_iid, train_data, val_data, test_data,
                 val_data_tr, val_data_te, test_data_tr, test_data_te,
                 u2id, i2id, disk, loaded>>

TrPath(datatype) ==
  IF datatype = "validation" THEN "validation_tr.csv" ELSE "test_tr.csv"
TePath(datatype) ==
  IF datatype = "validation" THEN "validation_te.csv" ELSE "test_te.csv"

\* load_data(datatype) for 'validation' / 'test', lines 175-178
Load(datatype) ==
  /\ pc = "reader"
  /\ loaded[datatype].status = "unset"
  /\ LET csv_tr == disk[TrPath(datatype)]
         csv_te == disk[TePath(datatype)]
     IN loaded' = [loaded EXCEPT ![datatype] =
          IF LoadRaises(csv_tr, csv_te, n_items)
          THEN [status |-> "error", tr |-> NoMatrix, te |-> NoMatrix]
          ELSE LET m == load_train_test_data(csv_tr, csv_te, n_items)
               IN [status |-> "ok", tr |-> m.tr, te |-> m.te]]
  /\ UNCHANGED <<cfg, pc, read_data, raw_data, user_activity, item_popularity,
                 unique_uid, tr_users, vd_users, te_users,
                 unique_iid, train_data, val_data, test_data,
                 val_data_tr, val_data_te, test_data_tr, test_data_te,
                 u2id, i2id, disk, n_items>>

Next ==
  \/ Filter
  \/ Partition
  \/ SplitVal
  \/ SplitTest
  \/ BuildMaps
  \/ NumerizeAll
  \/ ReaderInit
  \/ \E datatype \in DataTypes : Load(datatype)

Spec == Init /\ [][Next]_vars

\* filter() on any table with any thresholds
InitFilter ==
  /\ pc = "start"
  /\ read_data \in Tables(Users, Items, MaxCallRows)
  /\ cfg \in {Config(mu, mi, 1, <<1, 2>>) : mu \in Thresholds, mi \in Thresholds}
  /\ Blank
  /\ disk = <<>>

SpecFilter == InitFilter /\ [][Filter]_vars

\* split_train_test() on any table with any test_prop
InitSplit ==
  /\ pc = "split_val"
  /\ val_data \in Tables(Users, Items, MaxCallRows)
  /\ cfg \in {Config(0, 0, 1, tp) : tp \in TestProps}
  /\ read_data = <<>>
  /\ raw_data = <<>> /\ user_activity = <<>> /\ item_popularity = <<>>
  /\ unique_uid = <<>> /\ tr_users = <<>> /\ vd_users = <<>> /\ te_users = <<>>
  /\ unique_iid = <<>> /\ train_data = <<>> /\ test_data = <<>>
  /\ val_data_tr = <<>> /\ val_data_te = <<>>
  /\ test_data_tr = <<>> /\ test_data_te = <<>>
  /\ u2id = <<>> /\ i2id = <<>>
  /\ n_items = 0
  /\ loaded = [d \in DataTypes |-> Unloaded]
  /\ disk = <<>>

SpecSplit == InitSplit /\ [][SplitVal]_vars

\* a DataReader over any processed directory: tables of mapped ids, rows
\* grouped by uid, and an item file of one or two lines
CsvTables == SortedTables(0 .. 2, 0 .. 1, MaxCsvRows)

InitReader ==
  /\ pc = "done"
  /\ \E a \in CsvTables, b \in CsvTables, lines \in {<<1>>, <<1, 2>>} :
       disk = ("unique_iid.txt" :> lines
               @@ "unique_uid.txt" :> <<1, 2, 3>>
               @@ "train.csv" :> <<>>
               @@ "validation_tr.csv" :> a
               @@ "validation_te.csv" :> b
               @@ "test_tr.csv" :> b
               @@ "test_te.csv" :> a)
  /\ cfg = Config(0, 0, 1, <<1, 2>>)
  /\ read_data = <<>>
  /\ Blank

NextReader ==
  \/ ReaderInit
  \/ \E datatype \in DataTypes : Load(datatype)

SpecReader == InitReader /\ [][NextReader]_vars

\* ------------------------------------------------------------------ claims
Partitioned == pc \notin {"start", "filtered"}
Completed == pc \in {"done", "reader"}
HeldOutFiles ==
  {"validation_tr.csv", "validation_te.csv", "test_tr.csv", "test_te.csv"}
AllUsers == Users \cup WideUsers
AllItems == Items \cup WideItems

\* C1: the three user slices taken from the permuted user sequence are
\* pairwise disjoint, for every number of retained users and every heldout.
C1_SlicesDisjoint ==
  Partitioned =>
    /\ Range(tr_users) \cap Range(vd_users) = {}
    /\ Range(tr_users) \cap Range(te_users) = {}
    /\ Range(vd_users) \cap Range(te_users) = {}

\* C2: once process() has completed, every row of the four held-out tables
\* has an iid in [0, n_items), n_items the number of lines of
\* unique_iid.txt, and the external item on that line occurs in a row of a
\* train user.
C2_VocabularyClosure ==
  Completed =>
    \A f \in HeldOutFiles : \A k \in 1 .. Len(disk[f]) :
      LET iid == disk[f][k][2]
          lines == disk["unique_iid.txt"]
      IN /\ iid \in 0 .. Len(lines) - 1
         /\ \E j \in 1 .. Len(raw_data) :
              /\ raw_data[j][1] \in Range(tr_users)
              /\ raw_data[j][2] = lines[iid + 1]

\* process() completed on an input in which a held-out user had a row with
\* an item no train user has, and the held-out tables are not empty
C2_Witness ==
  /\ pc = "done"
  /\ disk["validation_tr.csv"] # <<>> /\ disk["test_te.csv"] # <<>>
  /\ \E j \in 1 .. Len(raw_data) :
       /\ raw_data[j][1] \in Range(vd_users) \cup Range(te_users)
       /\ raw_data[j][2] \notin Range(unique_iid)

\* C3 (as stated): on the table filter returns, every user has at least
\* min_u rows and every item has at least min_i rows.
C3_BothThresholds ==
  pc = "filtered" =>
    /\ \A u \in Values(raw_data, 1) : Count(raw_data, 1, u) >= cfg.u_min
    /\ \A i \in Values(raw_data, 2) : Count(raw_data, 2, i) >= cfg.i_min

\* C3 (amended): on the table filter returns, every user has at least min_u
\* rows; every item of it has at least min_i rows in the table filter was
\* given; and the two returned counts are the counts of the returned table.
C3_SinglePass ==
  pc = "filtered" =>
    /\ \A u \in Values(raw_data, 1) : Count(raw_data, 1, u) >= cfg.u_min
    /\ \A i \in Values(raw_data, 2) : Count(read_data, 2, i) >= cfg.i_min
    /\ DOMAIN user_activity = Values(raw_data, 1)
    /\ \A u \in Values(raw_data, 1) : user_activity[u] = Count(raw_data, 1, u)
    /\ DOMAIN item_popularity = Values(raw_data, 2)
    /\ \A i \in Values(raw_data, 2) : item_popularity[i] = Count(raw_data, 2, i)

\* filter ran with both thresholds on, the user pruning removed rows, and an
\* item of the returned table is left with fewer than min_i rows
C3_Witness ==
  /\ pc = "filtered"
  /\ cfg.u_min > 0 /\ cfg.i_min > 0
  /\ Len(raw_data) < Len(read_data)
  /\ \E i \in Values(raw_data, 2) : Count(raw_data, 2, i) < cfg.i_min

\* C4: in the tables process() wrote, every user of validation_te is a user
\* of validation_tr, and every user of test_te is a user of test_tr.
C4_TeUsersInTr ==
  Completed =>
    /\ Values(disk["validation_te.csv"], 1) \subseteq Values(disk["validation_tr.csv"], 1)
    /\ Values(disk["test_te.csv"], 1) \subseteq Values(disk["test_tr.csv"], 1)

\* C5: for test_prop in (0, 1], split_train_test puts exactly
\* max(floor(test_prop * k), 1) rows of a user with k > 1 rows into te, the
\* user's tr and te rows together being the user's rows, each once; a user
\* with k <= 1 rows has no row in tr or te.
C5_HeldOutSize ==
  (pc = "split_test" /\ cfg.test_prop[1] > 0) =>
    \A u \in AllUsers :
      LET k == Count(val_data, 1, u)
          floor == (cfg.test_prop[1] * k) \div cfg.test_prop[2]
      IN IF k > 1
         THEN /\ Count(val_data_te, 1, u) = (IF floor >= 1 THEN floor ELSE 1)
              /\ \A i \in AllItems :
                   Count(Isin(val_data_tr, 1, {u}), 2, i)
                     + Count(Isin(val_data_te, 1, {u}), 2, i)
                   = Count(Isin(val_data, 1, {u}), 2, i)
         ELSE Count(val_data_tr, 1, u) = 0 /\ Count(val_data_te, 1, u) = 0

\* split_train_test returned on a table with a one-row user (skipped) and a
\* user whose held-out share is more than one row
C5_Witness ==
  /\ pc = "split_test"
  /\ cfg.test_prop[1] > 0
  /\ \E u \in Values(val_data, 1) : Count(val_data, 1, u) = 1
  /\ \E u \in Values(val_data, 1) : Count(val_data_te, 1, u) >= 2

\* the partition table and the mapped user of row r of a loaded pair
PartitionData(datatype) ==
  IF datatype = "validation" THEN val_data ELSE test_data
RowUid(datatype, r) == SortedSeq(Values(disk[TrPath(datatype)], 1))[r]

\* C6: for every row (user) of a loaded validation / test pair, the stored
\* entries of the tr row plus those of the te row number the user's
\* interactions in that partition.
C6_RowConservation ==
  \A d \in DataTypes :
    loaded[d].status = "ok" =>
      \A r \in 1 .. Len(loaded[d].tr.rows) :
        Cardinality(loaded[d].tr.rows[r]) + Cardinality(loaded[d].te.rows[r])
          = Count(PartitionData(d), 1,
                  disk["unique_uid.txt"][RowUid(d, r) + 1])

\* C7: the two matrices load_train_test_data returns have the same shape,
\* row r of both holds the items of the same user (the r-th uid with a tr
\* row), and no row of the tr matrix is empty.
C7_Aligned ==
  \A d \in DataTypes :
    loaded[d].status = "ok" =>
      LET csv_tr == disk[TrPath(d)]
          csv_te == disk[TePath(d)]
          kept == SortedSeq(Values(csv_tr, 1))
          m == loaded[d]
      IN /\ m.tr.shape = m.te.shape
         /\ m.tr.shape = <<Len(kept), n_items>>
         /\ Len(m.tr.rows) = Len(kept) /\ Len(m.te.rows) = Len(kept)
         /\ \A r \in 1 .. Len(kept) :
              /\ m.tr.rows[r] # {}
              /\ m.tr.rows[r] = Values(Isin(csv_tr, 1, {kept[r]}), 2)
              /\ m.te.rows[r] = Values(Isin(csv_te, 1, {kept[r]}), 2)

\* a pair was loaded in which a te user has no tr row, between two users
\* that have one
C7_Witness ==
  \E d \in DataTypes :
    /\ loaded[d].status = "ok"
    /\ Len(loaded[d].tr.rows) >= 2
    /\ \E u \in Values(disk[TePath(d)], 1) :
         /\ u \notin Values(disk[TrPath(d)], 1)
         /\ \E a, b \in Values(disk[TrPath(d)], 1) : a < u /\ u < b

\* a held-out user left with at most one row over the train vocabulary
Degenerate(u) ==
  Count(Isin(raw_data, 2, Range(unique_iid)), 1, u) <= 1

\* C8: when the split is the intended one (1 <= heldout, a train user left,
\* heldout users in each held-out group) and a held-out user is left with at
\* most one row over the train vocabulary, process() does not raise.
C8_DegenerateUsersSkipped ==
  ( /\ Partitioned
    /\ cfg.heldout >= 1
    /\ Len(tr_users) >= 1
    /\ Len(vd_users) = cfg.heldout /\ Len(te_users) = cfg.heldout
    /\ \E u \in Range(vd_users) \cup Range(te_users) : Degenerate(u) )
  => pc # "ValueError"

FiveFiles == HeldOutFiles \cup {"train.csv"}

\* C9: once process() has completed, the mapped user ids are exactly
\* 0 .. m-1, m the number of lines of unique_uid.txt, one per line and no
\* two lines sharing one, and each is the uid of a row of a written table.
C9_NoPhantomIds ==
  Completed =>
    LET lines == disk["unique_uid.txt"]
        m == Len(lines)
    IN /\ DOMAIN u2id = Range(lines)
       /\ \A k \in 1 .. m : u2id[lines[k]] = k - 1
       /\ {u2id[x] : x \in DOMAIN u2id} = 0 .. m - 1
       /\ \A x, y \in DOMAIN u2id : u2id[x] = u2id[y] => x = y
       /\ \A id \in 0 .. m - 1 : \E f \in FiveFiles : id \in Values(disk[f], 1)

\* process() completed and the pruning removed a held-out user
C9_Witness ==
  /\ pc = "done"
  /\ Len(disk["unique_uid.txt"]) < Cardinality(DOMAIN user_activity)

\* C10: the numerize calls find every id: no KeyError, and when they run
\* every user of the five tables is a key of u2id and every item a key of
\* i2id.
C10_NoLookupFailure ==
  /\ pc # "KeyError"
  /\ pc = "numerize" =>
       \A d \in {train_data, val_data_tr, val_data_te, test_data_tr, test_data_te} :
         /\ Values(d, 1) \subseteq DOMAIN u2id
         /\ Values(d, 2) \subseteq DOMAIN i2id

\* numerize is about to run on non-empty held-out tables, after the pruning
\* removed a held-out user from unique_uid
C10_Witness ==
  /\ pc = "numerize"
  /\ val_data_te # <<>> /\ test_data_te # <<>>
  /\ Len(unique_uid) < Cardinality(DOMAIN user_activity)

====
